---- MODULE Spec2Model ----
(***************************************************************************)
(* Streaming decision engine of the malware detection gateway              *)
(* (src/detector.py, src/threat_manager.py, src/database.py,               *)
(* src/settings.py, src/app.py).                                           *)
(*                                                                         *)
(* One scan call (StreamingDetector.scan_url or scan_file) is followed     *)
(* from its start to its return.  The call is split at its two suspension  *)
(* points: the wait for the next chunk of the source and the wait for the  *)
(* Scorer (StreamingDetector.infer).  Probabilities and thresholds are     *)
(* hundredths (0.7 is 70); the comparisons of the code are kept as they    *)
(* are.  The Scorer is external: its answer is any probability.            *)
(*                                                                         *)
(* The faults followed are those the scan call can meet from its two       *)
(* collaborators: a requests.RequestException of the chunk source and an   *)
(* exception of infer.  The threat sink (ThreatManager over the database)  *)
(* is taken to complete.  The optional progress_callback of scan_url is    *)
(* the caller's code and is left out, as are the timings (scan_time_ms)    *)
(* and the source names.                                                   *)
(***************************************************************************)
EXTENDS Integers, Sequences, FiniteSets, TLC

\* settings.window_size, scaled down (1500 in src/settings.py)
WindowSize == 2
\* largest settings.chunk_size of a detector, scaled down (512 in src/settings.py)
MaxChunkSize == 2
\* settings.max_file_size, scaled down (100 MB in src/settings.py)
MaxFileSize == 3
\* longest file_data handed to scan_file
MaxFileLen == 4

\* the threads that call the one detector at the same time
NSessions == 2
\* the chunks one of these calls takes before its source ends
MaxChunks == 1
\* settings.max_concurrent_scans, scaled down (10 in src/settings.py)
MaxConcurrentScans == 1
\* the blocked scans of the app whose notifications are followed
MaxEvents == 2

\* the byte values of the model (0..255 in the program)
Byte == {0, 1}
\* the probabilities the Scorer answers with, in hundredths
Probability == {0, 30, 70, 95, 100}
\* the values confidence_threshold is set to, in hundredths
ConfidenceValues == {30, 70}
\* the values early_termination_threshold is set to, in hundredths
EarlyValues == {30, 95}
\* the values of early_termination_min_bytes
MinBytesValues == {0, 3}

Min(a, b) == IF a <= b THEN a ELSE b
Max(a, b) == IF a >= b THEN a ELSE b

\* the greatest element of a non-empty set of numbers
SetMax(S) == CHOOSE x \in S : \A y \in S : y <= x

\* all sequences over S of length lo..hi
SeqsOf(S, lo, hi) == UNION {[1..n -> S] : n \in lo..hi}

\* s[-n:] of Python for n >= 0: the last n elements, all of s when it is shorter
\* or when n is 0 (s[-0:] is s[0:])
Last(s, n) == IF n = 0 \/ Len(s) <= n THEN s ELSE SubSeq(s, Len(s) - n + 1, Len(s))

\* s[i:i+n] of Python for a 0-based i within s
Slice(s, i, n) == SubSeq(s, i + 1, Min(i + n, Len(s)))

\* a dict with no entry
NoDetails == [k \in {} |-> FALSE]

\* dict.update: the entries of b over those of a
Update(a, b) == [k \in (DOMAIN a) \cup (DOMAIN b) |-> IF k \in DOMAIN b THEN b[k] ELSE a[k]]

VARIABLES
    settings,                 \* the global Settings instance
    detector,                 \* the StreamingDetector's settings fields
    stats,                    \* StreamingDetector.stats
    tm_stats,                 \* ThreatManager.stats
    threats,                  \* the rows of the threats table, in insertion order
    tasks,                    \* notification tasks scheduled on the event loop
    notification_queue,       \* app._notification_queue
    pc,                       \* where the scan call is
    source_type,              \* "URL" or "FILE"
    file_data,                \* scan_file's file_data
    i,                        \* scan_file's loop index
    use_early_termination,    \* local of scan_url / scan_file
    buffer,                   \* local: the rolling window
    bytes_scanned,            \* local
    max_probability,          \* local
    early_termination_active, \* local
    probability,              \* local: the Scorer's last answer
    results,                  \* the ScanResults the call has returned
    received,                 \* history: the chunks appended to the window, concatenated
    scored,                   \* history: the probabilities the Scorer has answered
    event,                    \* history: what the call met last
    sessions,                 \* the scan calls of the threads that share the detector
    lock,                     \* the holder of StreamingDetector._lock, 0 when free
    snapshot,                 \* the dict get_stats returned last
    subscribers,              \* the open /notifications/stream connections
    delivered,                \* the events each connection was sent, in order
    disconnected,             \* history: the client of the scan request has gone
    request,                  \* the options of the scan request the API was sent
    reader,                   \* a chunk's decision, read by read
    writer,                   \* a settings update, store by store
    applied                   \* a function applied on its own: name, argument, value

vars == <<settings, detector, stats, tm_stats, threats, tasks, notification_queue, pc,
          source_type, file_data, i, use_early_termination, buffer,
          bytes_scanned, max_probability, early_termination_active, probability, results,
          received, scored, event, sessions, lock, snapshot, subscribers, delivered,
          disconnected, request, reader, writer, applied>>

config == <<settings, detector>>
sinks == <<stats, tm_stats, threats, tasks>>
call == <<source_type, file_data, use_early_termination>>
threads == <<sessions, lock, snapshot>>
clients == <<subscribers, delivered, disconnected>>
aside == <<request, reader, writer, applied>>
one_call == <<pc, call, i, buffer, bytes_scanned, max_probability, early_termination_active,
              probability, results, received, scored, event>>

\* the threads, and the /notifications/stream connections
Sessions == 1..NSessions
Connections == {"a", "b"}

(***************************************************************************)
(* Risk classification                                                     *)
(***************************************************************************)

\* Settings.low_risk_threshold .. critical_threshold, the defaults
low_risk_threshold == 30
medium_risk_threshold == 50
high_risk_threshold == 70
critical_threshold == 90

\* Settings.risk_levels: the intervals in the order the dict is built
risk_levels ==
    << [level |-> "BENIGN", low |-> 0, high |-> low_risk_threshold],
       [level |-> "LOW", low |-> low_risk_threshold, high |-> medium_risk_threshold],
       [level |-> "MEDIUM", low |-> medium_risk_threshold, high |-> high_risk_threshold],
       [level |-> "HIGH", low |-> high_risk_threshold, high |-> critical_threshold],
       [level |-> "CRITICAL", low |-> critical_threshold, high |-> 100] >>

\* the first interval of table that holds p, 0 when none does
FirstInterval(table, p) ==
    LET hits == {k \in 1..Len(table) : table[k].low <= p /\ p < table[k].high}
    IN IF hits = {} THEN 0 ELSE CHOOSE k \in hits : \A j \in hits : k <= j

\* get_risk_level without the case of 1.0, which no half-open interval holds
get_risk_level_half_open(p) ==
    LET k == FirstInterval(risk_levels, p)
    IN IF k # 0 THEN risk_levels[k].level ELSE "BENIGN"

\* Settings.get_risk_level
get_risk_level(p) ==
    LET k == FirstInterval(risk_levels, p)
    IN IF k # 0 THEN risk_levels[k].level
       ELSE IF p >= 100 THEN "CRITICAL" ELSE "BENIGN"

\* ThreatManager.RISK_LEVELS
RISK_LEVELS ==
    << [level |-> "BENIGN", low |-> 0, high |-> 30],
       [level |-> "LOW", low |-> 30, high |-> 50],
       [level |-> "MEDIUM", low |-> 50, high |-> 70],
       [level |-> "HIGH", low |-> 70, high |-> 90],
       [level |-> "CRITICAL", low |-> 90, high |-> 100] >>

\* ThreatManager.calculate_risk_level
calculate_risk_level(p) ==
    LET k == FirstInterval(RISK_LEVELS, p)
    IN IF k # 0 THEN RISK_LEVELS[k].level
       ELSE IF p >= 100 THEN "CRITICAL" ELSE "BENIGN"

\* ThreatDatabase.calculate_risk_level
db_calculate_risk_level(p) ==
    IF p >= 90 THEN "CRITICAL"
    ELSE IF p >= 70 THEN "HIGH"
    ELSE IF p >= 50 THEN "MEDIUM"
    ELSE IF p >= 30 THEN "LOW"
    ELSE "BENIGN"

(***************************************************************************)
(* The rolling window and the blocking decision                            *)
(***************************************************************************)

\* the window without the slice: the buffer only grows
RollingWindowUnbounded(buf, chunk) == buf \o chunk

\* the window sliced from the wrong end: buffer[:window_size]
RollingWindowKeepOldest(buf, chunk) ==
    SubSeq(buf \o chunk, 1, Min(detector.window_size, Len(buf \o chunk)))

\* buffer.extend(chunk); buffer = buffer[-self.window_size:]
RollingWindow(buf, chunk) == Last(buf \o chunk, detector.window_size)

\* self.pad_token_id of the model, outside the byte values
pad_token_id == 256

\* return list(data)
byte_to_token_ids(data) == [k \in 1..Len(data) |-> data[k]]

\* the padding put in front of the tokens
pad_or_truncate_padding_first(tokens, length) ==
    IF Len(tokens) < length
    THEN [k \in 1..(length - Len(tokens)) |-> pad_token_id] \o tokens
    ELSE SubSeq(tokens, 1, length)

\* tokens + [pad_token_id] * (length - len(tokens)) if len(tokens) < length,
\* else tokens[:length]
pad_or_truncate(tokens, length) ==
    IF Len(tokens) < length
    THEN tokens \o [k \in 1..(length - Len(tokens)) |-> pad_token_id]
    ELSE SubSeq(tokens, 1, length)

\* the tokens of the tensor infer gives the model for the window data
preprocess(data) == pad_or_truncate(byte_to_token_ids(data), detector.window_size)

\* the last probability kept for the running maximum
RunningLast(maxp, p) == p

\* max_probability = max(max_probability, probability)
RunningMax(maxp, p) == Max(maxp, p)

\* the early-termination check of one chunk
EarlyHit(use_early, p, scanned) ==
    /\ use_early
    /\ scanned >= detector.early_termination_min_bytes
    /\ p >= detector.early_termination_threshold

\* the standard check with > for >=
StandardHitStrict(p) == p > detector.confidence_threshold

\* the standard threshold check of one chunk
StandardHit(p) == p >= detector.confidence_threshold

\* the two checks with the standard one first
DecideStandardFirst(use_early, p, scanned) ==
    IF p >= detector.confidence_threshold THEN "BLOCK_STANDARD"
    ELSE IF EarlyHit(use_early, p, scanned) THEN "BLOCK_EARLY"
    ELSE "CONTINUE"

\* the two checks with the standard one nested under the floor as well
DecideAboveFloor(use_early, p, scanned) ==
    IF scanned < detector.early_termination_min_bytes THEN "CONTINUE"
    ELSE IF EarlyHit(use_early, p, scanned) THEN "BLOCK_EARLY"
    ELSE IF StandardHit(p) THEN "BLOCK_STANDARD"
    ELSE "CONTINUE"

\* the two checks in the order the loop body makes them
Decide(use_early, p, scanned) ==
    IF EarlyHit(use_early, p, scanned) THEN "BLOCK_EARLY"
    ELSE IF StandardHit(p) THEN "BLOCK_STANDARD"
    ELSE "CONTINUE"

\* use_early_termination: the call's override, or the detector's default
UseEarlyTermination(early_termination) ==
    IF early_termination # "None" THEN early_termination = "True"
    ELSE detector.early_termination_enabled

(***************************************************************************)
(* The threat sink: ThreatManager over ThreatDatabase                      *)
(***************************************************************************)

\* ThreatDatabase.log_threat: the row inserted
Row(st, p, scanned, risk_level, details, blocked, status) ==
    [source_type |-> st, probability |-> p, bytes_scanned |-> scanned,
     risk_level |-> risk_level, details |-> details, blocked |-> blocked, status |-> status]

\* ThreatManager.log_threat called with blocked given: the statistics after it
LogThreatStats(s, scanned, is_blocked) ==
    IF is_blocked
    THEN [s EXCEPT !.total_scans = @ + 1, !.total_bytes_scanned = @ + scanned,
                   !.threats_detected = @ + 1, !.blocked = @ + 1]
    ELSE [s EXCEPT !.total_scans = @ + 1, !.total_bytes_scanned = @ + scanned,
                   !.clean_scans = @ + 1]

\* ThreatManager.log_threat: the row it has the database insert
LogThreatRow(st, p, scanned, is_blocked) ==
    Row(st, p, scanned, calculate_risk_level(p),
        [model_confidence |-> p, risk_level |-> calculate_risk_level(p),
         threshold_used |-> settings.confidence_threshold],
        is_blocked,
        IF p >= low_risk_threshold THEN "THREAT_DETECTED" ELSE "CLEAN")

\* ThreatManager.log_clean: the statistics after it
LogCleanStats(s, scanned) ==
    [s EXCEPT !.total_scans = @ + 1, !.clean_scans = @ + 1,
              !.total_bytes_scanned = @ + scanned]

\* ThreatManager.log_clean over ThreatDatabase.log_clean_scan: the row inserted
LogCleanRow(st, p, scanned) ==
    Row(st, p, scanned, db_calculate_risk_level(p),
        [model_confidence |-> p, risk_level |-> "BENIGN"], FALSE, "CLEAN")

(***************************************************************************)
(* The results of a scan call                                              *)
(***************************************************************************)

ScanResult(st, p, risk_level, scanned, blocked, status, details) ==
    [source_type |-> st, probability |-> p, risk_level |-> risk_level,
     bytes_scanned |-> scanned, blocked |-> blocked, status |-> status,
     details |-> details]

\* the ScanResult _create_blocked_result returns
BlockedResult(st, p, scanned, log_id, details) ==
    ScanResult(st, p, get_risk_level(p), scanned, TRUE, "THREAT_DETECTED",
               Update([log_id |-> log_id], details))

\* the ScanResult _create_clean_result returns
CleanResult(st, p, scanned, log_id, details) ==
    ScanResult(st, p, get_risk_level(p), scanned, FALSE, "CLEAN",
               Update([log_id |-> log_id], details))

\* an error result that keeps the best probability seen
ErrorResultBestSoFar(st, scanned) ==
    ScanResult(st, max_probability, get_risk_level(max_probability), scanned, FALSE,
               "ERROR", [error |-> "RequestException"])

\* the ScanResult of scan_url's except branch
ErrorResult(st, scanned) ==
    ScanResult(st, 0, "BENIGN", scanned, FALSE, "ERROR", [error |-> "RequestException"])

\* StreamingDetector._create_blocked_result; in_loop: asyncio.get_event_loop() gives
\* a running loop
create_blocked_result(st, p, scanned, details, in_loop) ==
    /\ stats' = [stats EXCEPT !.total_scans = @ + 1, !.threats_blocked = @ + 1,
                              !.total_bytes_scanned = @ + scanned]
    /\ tm_stats' = LogThreatStats(tm_stats, scanned, TRUE)
    /\ threats' = Append(threats, LogThreatRow(st, p, scanned, TRUE))
    /\ tasks' = IF in_loop
                THEN Append(tasks, [event |-> "threat_detected",
                                    data |-> [source_type |-> st, probability |-> p,
                                              risk_level |-> get_risk_level(p),
                                              bytes_scanned |-> scanned]])
                ELSE tasks
    /\ results' = Append(results, BlockedResult(st, p, scanned, Len(threats) + 1, details))

\* StreamingDetector._create_clean_result
create_clean_result(st, p, scanned, details) ==
    /\ stats' = [stats EXCEPT !.total_scans = @ + 1, !.total_bytes_scanned = @ + scanned]
    /\ tm_stats' = LogCleanStats(tm_stats, scanned)
    /\ threats' = Append(threats, LogCleanRow(st, p, scanned))
    /\ tasks' = tasks
    /\ results' = Append(results, CleanResult(st, p, scanned, Len(threats) + 1, details))

(***************************************************************************)
(* The scan call                                                           *)
(***************************************************************************)

\* the options of a scan request as the API declares them: block_on_detection of
\* URLScanRequest and the early_termination query parameter, at their defaults
NoRequest == [block_on_detection |-> TRUE, early_termination |-> FALSE]

\* a chunk's decision that has read nothing yet
NoRead == [pc |-> "idle", bytes_scanned |-> 0, probability |-> 0, min_bytes |-> 0,
           early_threshold |-> 0, early |-> FALSE]

\* no settings update under way
NoWrite == [pc |-> "idle", old |-> NoDetails, new |-> NoDetails]

\* a thread that has not called the detector yet
NoCall ==
    [pc |-> "idle", source_type |-> "NONE", buffer |-> <<>>, chunks |-> 0,
     bytes_scanned |-> 0, max_probability |-> 0, probability |-> 0, blocked |-> FALSE,
     details |-> NoDetails, k |-> 0, loaded |-> 0, tm_loaded |-> NoDetails,
     results |-> <<>>]

\* the state after construction, the configured threshold being one of thresholds
InitFrom(thresholds) ==
    /\ settings \in [confidence_threshold : thresholds,
                     early_termination_enabled : BOOLEAN,
                     early_termination_threshold : EarlyValues,
                     early_termination_min_bytes : MinBytesValues,
                     max_concurrent_scans : {MaxConcurrentScans}]
    /\ detector \in [confidence_threshold : {settings.confidence_threshold},
                     early_termination_enabled : {settings.early_termination_enabled},
                     early_termination_threshold : {settings.early_termination_threshold},
                     early_termination_min_bytes : {settings.early_termination_min_bytes},
                     chunk_size : 1..MaxChunkSize,
                     window_size : {WindowSize},
                     max_file_size : {MaxFileSize}]
    /\ stats = [total_scans |-> 0, threats_blocked |-> 0, total_bytes_scanned |-> 0]
    /\ tm_stats = [total_scans |-> 0, threats_detected |-> 0, clean_scans |-> 0,
                   blocked |-> 0, total_bytes_scanned |-> 0]
    /\ threats = <<>>
    /\ tasks = <<>>
    /\ notification_queue = <<>>
    /\ pc = "idle"
    /\ source_type = "NONE"
    /\ file_data = <<>>
    /\ i = 0
    /\ use_early_termination = FALSE
    /\ buffer = <<>>
    /\ bytes_scanned = 0
    /\ max_probability = 0
    /\ early_termination_active = FALSE
    /\ probability = 0
    /\ results = <<>>
    /\ received = <<>>
    /\ scored = {}
    /\ event = "none"
    /\ sessions = [s \in Sessions |-> NoCall]
    /\ lock = 0
    /\ snapshot = stats
    /\ subscribers = {}
    /\ delivered = [c \in Connections |-> <<>>]
    /\ disconnected = FALSE
    /\ request = NoRequest
    /\ reader = NoRead
    /\ writer = NoWrite
    /\ applied = [f |-> "none", x |-> 0, y |-> 0]

Init == InitFrom(ConfidenceValues)

\* the call returns a ScanResult
Return == pc' = "returned"

\* scan_url up to its first wait for the source
ScanUrl(early_termination) ==
    /\ pc = "idle"
    /\ pc' = "fetch"
    /\ source_type' = "URL"
    /\ use_early_termination' = UseEarlyTermination(early_termination)
    /\ UNCHANGED <<config, aside, threads, clients, sinks, notification_queue, file_data, i, buffer, bytes_scanned,
                   max_probability, early_termination_active, probability, results,
                   received, scored, event>>

\* scan_file up to its loop
ScanFile(data, early_termination) ==
    /\ pc = "idle"
    /\ pc' = "fetch"
    /\ source_type' = "FILE"
    /\ file_data' = data
    /\ use_early_termination' = UseEarlyTermination(early_termination)
    /\ UNCHANGED <<config, aside, threads, clients, sinks, notification_queue, i, buffer, bytes_scanned,
                   max_probability, early_termination_active, probability, results,
                   received, scored, event>>

\* the size limit reported as an error
StopOnSizeLimitAsError(scanned) ==
    /\ results' = Append(results, ErrorResult("URL", scanned))
    /\ Return
    /\ UNCHANGED sinks

\* scan_url: the size limit is exceeded; the loop is left and the clean result returned
StopOnSizeLimit(scanned) ==
    /\ create_clean_result("URL", max_probability, scanned,
                           [early_termination_attempted |-> early_termination_active])
    /\ Return

\* scan_url: response.iter_content yields a chunk; the window, the count and the size limit
UrlChunk(chunk) ==
    /\ pc = "fetch"
    /\ source_type = "URL"
    /\ buffer' = RollingWindow(buffer, chunk)
    /\ bytes_scanned' = bytes_scanned + Len(chunk)
    /\ received' = received \o chunk
    /\ IF bytes_scanned' > detector.max_file_size
       THEN /\ StopOnSizeLimit(bytes_scanned')
            /\ event' = "size_limit"
       ELSE /\ pc' = "infer"
            /\ event' = "chunk"
            /\ UNCHANGED <<sinks, results>>
    /\ UNCHANGED <<config, aside, threads, clients, notification_queue, call, i, max_probability,
                   early_termination_active, probability, scored>>

\* scan_url: the source is exhausted, or yields an empty chunk
UrlExhausted ==
    /\ pc = "fetch"
    /\ source_type = "URL"
    /\ create_clean_result("URL", max_probability, bytes_scanned,
                           [early_termination_attempted |-> early_termination_active])
    /\ Return
    /\ event' = "exhausted"
    /\ UNCHANGED <<config, aside, threads, clients, notification_queue, call, i, buffer, bytes_scanned,
                   max_probability, early_termination_active, probability, received, scored>>

\* scan_url: requests raises a RequestException (connection, HTTP status, timeout, read)
UrlFault ==
    /\ pc = "fetch"
    /\ source_type = "URL"
    /\ results' = Append(results, ErrorResult("URL", bytes_scanned))
    /\ Return
    /\ event' = "fault"
    /\ UNCHANGED <<config, aside, threads, clients, sinks, notification_queue, call, i, buffer, bytes_scanned,
                   max_probability, early_termination_active, probability, received, scored>>

\* scan_file: the next slice of file_data; the window and the count
FileChunk ==
    /\ pc = "fetch"
    /\ source_type = "FILE"
    /\ i < Len(file_data)
    /\ LET chunk == Slice(file_data, i, detector.chunk_size)
       IN /\ buffer' = RollingWindow(buffer, chunk)
          /\ bytes_scanned' = bytes_scanned + Len(chunk)
          /\ received' = received \o chunk
    /\ i' = i + detector.chunk_size
    /\ pc' = "infer"
    /\ event' = "chunk"
    /\ UNCHANGED <<config, aside, threads, clients, sinks, notification_queue, call, max_probability,
                   early_termination_active, probability, results, scored>>

\* scan_file: the loop is over
FileExhausted ==
    /\ pc = "fetch"
    /\ source_type = "FILE"
    /\ i >= Len(file_data)
    /\ create_clean_result("FILE", max_probability, bytes_scanned,
                           [early_termination_attempted |-> early_termination_active])
    /\ Return
    /\ event' = "exhausted"
    /\ UNCHANGED <<config, aside, threads, clients, notification_queue, call, i, buffer, bytes_scanned,
                   max_probability, early_termination_active, probability, received, scored>>

\* InferReturn with a blocked result that reports the running maximum
InferReturnReportingMaximum(p, in_loop) ==
    /\ pc = "infer"
    /\ probability' = p
    /\ max_probability' = RunningMax(max_probability, p)
    /\ scored' = scored \cup {p}
    /\ event' = "score"
    /\ LET verdict == Decide(use_early_termination, p, bytes_scanned)
       IN CASE verdict = "BLOCK_EARLY" ->
                 /\ early_termination_active' = TRUE
                 /\ create_blocked_result(source_type, max_probability', bytes_scanned,
                                          [early_termination |-> TRUE], in_loop)
                 /\ Return
            [] verdict = "BLOCK_STANDARD" ->
                 /\ create_blocked_result(source_type, max_probability', bytes_scanned,
                                          NoDetails, in_loop)
                 /\ Return
                 /\ UNCHANGED early_termination_active
            [] OTHER ->
                 /\ pc' = "fetch"
                 /\ UNCHANGED <<sinks, results, early_termination_active>>
    /\ UNCHANGED <<config, aside, threads, clients, notification_queue, call, i, buffer,
                   bytes_scanned, received>>

\* infer answers p for the window: the running maximum and the two threshold checks
InferReturn(p, in_loop) ==
    /\ pc = "infer"
    /\ probability' = p
    /\ max_probability' = RunningMax(max_probability, p)
    /\ scored' = scored \cup {p}
    /\ event' = "score"
    /\ LET verdict == Decide(use_early_termination, p, bytes_scanned)
       IN CASE verdict = "BLOCK_EARLY" ->
                 /\ early_termination_active' = TRUE
                 /\ create_blocked_result(source_type, p, bytes_scanned,
                                          [early_termination |-> TRUE], in_loop)
                 /\ Return
            [] verdict = "BLOCK_STANDARD" ->
                 /\ create_blocked_result(source_type, p, bytes_scanned, NoDetails, in_loop)
                 /\ Return
                 /\ UNCHANGED early_termination_active
            [] OTHER ->
                 /\ pc' = "fetch"
                 /\ UNCHANGED <<sinks, results, early_termination_active>>
    /\ UNCHANGED <<config, aside, threads, clients, notification_queue, call, i, buffer, bytes_scanned, received>>

\* infer raises (no model, a failure of the backend): neither scan_url's except
\* clause (requests.RequestException) nor scan_file catches it
InferRaise ==
    /\ pc = "infer"
    /\ pc' = "raised"
    /\ event' = "scorer_fault"
    /\ UNCHANGED <<config, aside, threads, clients, sinks, notification_queue, call, i, buffer, bytes_scanned,
                   max_probability, early_termination_active, probability, results,
                   received, scored>>

\* StreamingDetector._send_notification, run by the event loop: app.notify_clients
SendNotification ==
    /\ tasks # <<>>
    /\ notification_queue' = Append(notification_queue, Head(tasks))
    /\ tasks' = Tail(tasks)
    /\ UNCHANGED <<config, aside, threads, clients, stats, tm_stats, threats, pc, call, i, buffer, bytes_scanned,
                   max_probability, early_termination_active, probability, results,
                   received, scored, event>>

Override == {"None", "True", "False"}

Next ==
    \/ \E et \in Override : ScanUrl(et)
    \/ \E data \in SeqsOf(Byte, 0, MaxFileLen), et \in Override : ScanFile(data, et)
    \/ \E chunk \in SeqsOf(Byte, 1, detector.chunk_size) : UrlChunk(chunk)
    \/ UrlExhausted
    \/ UrlFault
    \/ FileChunk
    \/ FileExhausted
    \/ \E p \in Probability, in_loop \in BOOLEAN : InferReturn(p, in_loop)
    \/ InferRaise
    \/ SendNotification

Spec == Init /\ [][Next]_vars

\* the same with progress: a wait for the source ends with a chunk, the end of the
\* stream or a fault (requests.get is given timeout=self.download_timeout), infer
\* answers or raises, and the event loop runs the tasks it was given
SpecFair == Init /\ [][Next]_vars /\ WF_vars(Next)

(***************************************************************************)
(* The client of the scan request                                          *)
(*                                                                         *)
(* The endpoints /scan/url and /scan/file call the detector and wait for   *)
(* its result.  The client can close its connection while the scan runs;   *)
(* nothing in the endpoint or the detector looks at the connection, so     *)
(* the scan goes on as before.                                             *)
(***************************************************************************)

\* the client of the request goes while the scan is taking chunks or asking the Scorer
ClientDisconnect ==
    /\ pc \in {"fetch", "infer"}
    /\ ~disconnected
    /\ disconnected' = TRUE
    /\ UNCHANGED <<config, aside, threads, sinks, notification_queue, one_call, subscribers,
                   delivered>>

NextCancel ==
    \/ Next
    \/ ClientDisconnect

SpecCancel == Init /\ [][NextCancel]_vars

(***************************************************************************)
(* The scan call with a Scorer of finer answers                            *)
(*                                                                         *)
(* The same call, its sources answering without fault, and a Scorer that   *)
(* can answer 0.5, between the least early-termination threshold and the   *)
(* greatest standard threshold of the configurations followed.             *)
(***************************************************************************)

NextFine ==
    \/ \E et \in Override : ScanUrl(et)
    \/ \E data \in SeqsOf(Byte, 0, MaxFileLen), et \in Override : ScanFile(data, et)
    \/ \E chunk \in SeqsOf(Byte, 1, detector.chunk_size) : UrlChunk(chunk)
    \/ UrlExhausted
    \/ FileChunk
    \/ FileExhausted
    \/ \E p \in {0, 30, 50, 70}, in_loop \in BOOLEAN : InferReturn(p, in_loop)

SpecFine == Init /\ [][NextFine]_vars

(***************************************************************************)
(* The scan endpoints                                                      *)
(*                                                                         *)
(* POST /scan/url and POST /scan/file take block_on_detection and the      *)
(* query parameter early_termination, and call the detector with           *)
(* block_on_detection as given and with early_termination when it is true, *)
(* None when it is false.  request holds the two options as the client     *)
(* gave them.                                                              *)
(***************************************************************************)

\* POST /scan/url up to scan_url's first wait for the source
PostScanUrl(block_on_detection, early_termination) ==
    /\ pc = "idle"
    /\ request' = [block_on_detection |-> block_on_detection,
                   early_termination |-> early_termination]
    /\ pc' = "fetch"
    /\ source_type' = "URL"
    /\ use_early_termination' =
          UseEarlyTermination(IF early_termination THEN "True" ELSE "None")
    /\ UNCHANGED <<config, reader, writer, applied, threads, clients, sinks,
                   notification_queue, file_data, i, buffer, bytes_scanned,
                   max_probability, early_termination_active, probability, results,
                   received, scored, event>>

\* POST /scan/file up to scan_file's loop; a file over the size limit is answered 413
\* and not scanned
PostScanFile(data, block_on_detection, early_termination) ==
    /\ pc = "idle"
    /\ request' = [block_on_detection |-> block_on_detection,
                   early_termination |-> early_termination]
    /\ IF Len(data) > detector.max_file_size
       THEN /\ pc' = "raised"
            /\ event' = "too_large"
            /\ UNCHANGED <<source_type, file_data, use_early_termination>>
       ELSE /\ pc' = "fetch"
            /\ source_type' = "FILE"
            /\ file_data' = data
            /\ use_early_termination' =
                  UseEarlyTermination(IF early_termination THEN "True" ELSE "None")
            /\ event' = event
    /\ UNCHANGED <<config, reader, writer, applied, threads, clients, sinks,
                   notification_queue, i, buffer, bytes_scanned, max_probability,
                   early_termination_active, probability, results, received, scored>>

NextApi ==
    \/ \E b, et \in BOOLEAN : PostScanUrl(b, et)
    \/ \E data \in SeqsOf(Byte, 0, MaxFileLen), b, et \in BOOLEAN : PostScanFile(data, b, et)
    \/ \E chunk \in SeqsOf(Byte, 1, detector.chunk_size) : UrlChunk(chunk)
    \/ UrlExhausted
    \/ UrlFault
    \/ FileChunk
    \/ FileExhausted
    \/ \E p \in Probability, in_loop \in BOOLEAN : InferReturn(p, in_loop)
    \/ InferRaise
    \/ SendNotification

SpecApi == Init /\ [][NextApi]_vars

(***************************************************************************)
(* The threat log failing                                                  *)
(*                                                                         *)
(* ThreatDatabase.get_connection rolls back and raises again whatever the  *)
(* insert raises (a locked or full database, a missing directory).         *)
(* Neither ThreatManager nor the detector catches it: it leaves            *)
(* _create_blocked_result or _create_clean_result, and the scan call,      *)
(* after both have counted the scan.  Here the threshold may also be 0.0,  *)
(* the least that Settings accepts.                                        *)
(***************************************************************************)

\* _create_blocked_result when the insert of log_threat raises
blocked_sink_fault(scanned) ==
    /\ stats' = [stats EXCEPT !.total_scans = @ + 1, !.threats_blocked = @ + 1,
                              !.total_bytes_scanned = @ + scanned]
    /\ tm_stats' = LogThreatStats(tm_stats, scanned, TRUE)
    /\ UNCHANGED <<threats, tasks, results>>

\* _create_clean_result when the insert of log_clean raises
clean_sink_fault(scanned) ==
    /\ stats' = [stats EXCEPT !.total_scans = @ + 1, !.total_bytes_scanned = @ + scanned]
    /\ tm_stats' = LogCleanStats(tm_stats, scanned)
    /\ UNCHANGED <<threats, tasks, results>>

\* infer answers p, a threshold is reached and the insert raises
BlockedSinkFault(p) ==
    /\ pc = "infer"
    /\ Decide(use_early_termination, p, bytes_scanned) \in {"BLOCK_EARLY", "BLOCK_STANDARD"}
    /\ probability' = p
    /\ max_probability' = RunningMax(max_probability, p)
    /\ scored' = scored \cup {p}
    /\ early_termination_active' =
          (Decide(use_early_termination, p, bytes_scanned) = "BLOCK_EARLY")
    /\ blocked_sink_fault(bytes_scanned)
    /\ pc' = "raised"
    /\ event' = "sink_fault"
    /\ UNCHANGED <<config, aside, threads, clients, notification_queue, call, i, buffer,
                   bytes_scanned, received>>

\* the source is exhausted and the insert of the clean scan raises
CleanSinkFault ==
    /\ pc = "fetch"
    /\ source_type = "FILE" => i >= Len(file_data)
    /\ clean_sink_fault(bytes_scanned)
    /\ pc' = "raised"
    /\ event' = "sink_fault"
    /\ UNCHANGED <<config, aside, threads, clients, notification_queue, call, i, buffer,
                   bytes_scanned, max_probability, early_termination_active, probability,
                   received, scored>>

InitSink == InitFrom({0, 70})

NextSink ==
    \/ \E et \in Override : ScanUrl(et)
    \/ \E data \in SeqsOf(Byte, 0, MaxFileLen), et \in Override : ScanFile(data, et)
    \/ \E chunk \in SeqsOf(Byte, 1, detector.chunk_size) : UrlChunk(chunk)
    \/ UrlExhausted
    \/ UrlFault
    \/ FileChunk
    \/ FileExhausted
    \/ \E p \in Probability, in_loop \in BOOLEAN : InferReturn(p, in_loop)
    \/ InferRaise
    \/ SendNotification
    \/ \E p \in Probability : BlockedSinkFault(p)
    \/ CleanSinkFault

SpecSink == InitSink /\ [][NextSink]_vars

\* the scan call alone, under a threshold that may be 0.0
SpecLow == InitSink /\ [][Next]_vars

(***************************************************************************)
(* The settings updated while a scan runs                                  *)
(*                                                                         *)
(* POST /settings/threshold and POST /settings/early-termination store     *)
(* the new values in the global settings and in the detector's fields.     *)
(* Here an update falls between two steps of a scan_url call made with     *)
(* early_termination left to the detector's default; the call reads the    *)
(* detector's fields when its code does.                                   *)
(***************************************************************************)

\* POST /settings/threshold: settings, detector.set_threshold and
\* ThreatManager.update_threshold
update_threshold(threshold) ==
    /\ settings' = [settings EXCEPT !.confidence_threshold = threshold]
    /\ detector' = [detector EXCEPT !.confidence_threshold = threshold]
    /\ UNCHANGED <<aside, threads, clients, sinks, notification_queue, one_call>>

\* POST /settings/early-termination: the three settings, then the three fields of
\* the detector
update_early_termination_settings(enabled, threshold, min_bytes) ==
    /\ settings' = [settings EXCEPT !.early_termination_enabled = enabled,
                                    !.early_termination_threshold = threshold,
                                    !.early_termination_min_bytes = min_bytes]
    /\ detector' = [detector EXCEPT !.early_termination_enabled = enabled,
                                    !.early_termination_threshold = threshold,
                                    !.early_termination_min_bytes = min_bytes]
    /\ UNCHANGED <<aside, threads, clients, sinks, notification_queue, one_call>>

NextConfig ==
    \/ ScanUrl("None")
    \/ \E chunk \in SeqsOf(Byte, 1, detector.chunk_size) : UrlChunk(chunk)
    \/ UrlExhausted
    \/ UrlFault
    \/ \E p \in Probability, in_loop \in BOOLEAN : InferReturn(p, in_loop)
    \/ \E threshold \in ConfidenceValues : update_threshold(threshold)
    \/ \E enabled \in BOOLEAN, threshold \in EarlyValues, min_bytes \in MinBytesValues :
          update_early_termination_settings(enabled, threshold, min_bytes)

SpecConfig == Init /\ [][NextConfig]_vars

(***************************************************************************)
(* The three operations that update the standard threshold                 *)
(*                                                                         *)
(* applied holds the last of them: the operation, the threshold given and  *)
(* the old_threshold it reports (StreamingDetector.set_threshold reports   *)
(* none).                                                                  *)
(***************************************************************************)

\* POST /settings/threshold, with its response
PostThreshold(threshold) ==
    /\ applied' = [f |-> "POST /settings/threshold", x |-> threshold,
                   y |-> settings.confidence_threshold]
    /\ settings' = [settings EXCEPT !.confidence_threshold = threshold]
    /\ detector' = [detector EXCEPT !.confidence_threshold = threshold]
    /\ UNCHANGED <<request, reader, writer, threads, clients, sinks, notification_queue,
                   one_call>>

\* ThreatManager.update_threshold
tm_update_threshold(threshold) ==
    /\ applied' = [f |-> "ThreatManager.update_threshold", x |-> threshold,
                   y |-> settings.confidence_threshold]
    /\ settings' = [settings EXCEPT !.confidence_threshold = threshold]
    /\ UNCHANGED <<detector, request, reader, writer, threads, clients, sinks,
                   notification_queue, one_call>>

\* StreamingDetector.set_threshold
set_threshold(threshold) ==
    /\ applied' = [f |-> "StreamingDetector.set_threshold", x |-> threshold, y |-> "None"]
    /\ detector' = [detector EXCEPT !.confidence_threshold = threshold]
    /\ UNCHANGED <<settings, request, reader, writer, threads, clients, sinks,
                   notification_queue, one_call>>

NextThreshold ==
    \/ \E threshold \in {0, 30, 70, 100} : PostThreshold(threshold)
    \/ \E threshold \in {0, 30, 70, 100} : tm_update_threshold(threshold)
    \/ \E threshold \in {0, 30, 70, 100} : set_threshold(threshold)

SpecThreshold == Init /\ [][NextThreshold]_vars

(***************************************************************************)
(* One chunk's decision against one update, statement by statement         *)
(*                                                                         *)
(* A thread is at a chunk of a call in which early termination is in       *)
(* force; another runs update_early_termination_settings.  The decision    *)
(* reads self.early_termination_min_bytes and then, the floor reached,     *)
(* self.early_termination_threshold; the update stores the detector's      *)
(* three fields one after the other.  No lock is taken by either.          *)
(***************************************************************************)

\* the first check of the chunk: bytes_scanned >= self.early_termination_min_bytes
ReadMinBytes(scanned, p) ==
    /\ reader.pc = "idle"
    /\ reader' = [pc |-> IF scanned >= detector.early_termination_min_bytes
                         THEN "floor_reached" ELSE "decided",
                  bytes_scanned |-> scanned, probability |-> p,
                  min_bytes |-> detector.early_termination_min_bytes,
                  early_threshold |-> 0, early |-> FALSE]
    /\ UNCHANGED <<config, request, writer, applied, threads, clients, sinks,
                   notification_queue, one_call>>

\* the second check: probability >= self.early_termination_threshold
ReadEarlyThreshold ==
    /\ reader.pc = "floor_reached"
    /\ reader' = [reader EXCEPT !.pc = "decided",
                                !.early_threshold = detector.early_termination_threshold,
                                !.early = reader.probability
                                             >= detector.early_termination_threshold]
    /\ UNCHANGED <<config, request, writer, applied, threads, clients, sinks,
                   notification_queue, one_call>>

\* the endpoint is entered: old_settings is taken and the three settings are stored
BeginUpdate(enabled, threshold, min_bytes) ==
    /\ writer.pc = "idle"
    /\ writer' = [pc |-> "enabled", old |-> detector,
                  new |-> [detector EXCEPT !.early_termination_enabled = enabled,
                                           !.early_termination_threshold = threshold,
                                           !.early_termination_min_bytes = min_bytes]]
    /\ settings' = [settings EXCEPT !.early_termination_enabled = enabled,
                                    !.early_termination_threshold = threshold,
                                    !.early_termination_min_bytes = min_bytes]
    /\ UNCHANGED <<detector, request, reader, applied, threads, clients, sinks,
                   notification_queue, one_call>>

\* detector.early_termination_enabled = request.enabled
StoreEnabled ==
    /\ writer.pc = "enabled"
    /\ detector' = [detector EXCEPT !.early_termination_enabled =
                                       writer.new.early_termination_enabled]
    /\ writer' = [writer EXCEPT !.pc = "threshold"]
    /\ UNCHANGED <<settings, request, reader, applied, threads, clients, sinks,
                   notification_queue, one_call>>

\* detector.early_termination_threshold = request.threshold
StoreThreshold ==
    /\ writer.pc = "threshold"
    /\ detector' = [detector EXCEPT !.early_termination_threshold =
                                       writer.new.early_termination_threshold]
    /\ writer' = [writer EXCEPT !.pc = "min_bytes"]
    /\ UNCHANGED <<settings, request, reader, applied, threads, clients, sinks,
                   notification_queue, one_call>>

\* detector.early_termination_min_bytes = request.min_bytes
StoreMinBytes ==
    /\ writer.pc = "min_bytes"
    /\ detector' = [detector EXCEPT !.early_termination_min_bytes =
                                       writer.new.early_termination_min_bytes]
    /\ writer' = [writer EXCEPT !.pc = "done"]
    /\ UNCHANGED <<settings, request, reader, applied, threads, clients, sinks,
                   notification_queue, one_call>>

NextTorn ==
    \/ \E scanned \in {0, 3}, p \in {30, 95} : ReadMinBytes(scanned, p)
    \/ ReadEarlyThreshold
    \/ \E enabled \in BOOLEAN, threshold \in EarlyValues, min_bytes \in MinBytesValues :
          BeginUpdate(enabled, threshold, min_bytes)
    \/ StoreEnabled
    \/ StoreThreshold
    \/ StoreMinBytes

SpecTorn == Init /\ [][NextTorn]_vars

(***************************************************************************)
(* The functions of one value                                              *)
(*                                                                         *)
(* applied holds the application of a behaviour: the function, its         *)
(* argument and its value.  A packet size is in bytes; a dynamic threshold *)
(* is in units of 1/14000, in which 0.75 is 10500, 0.80 is 11200, 0.85 is  *)
(* 11900 and the interpolation 0.05 * (size - 100) / 700 is size - 100.    *)
(***************************************************************************)

\* get_dynamic_threshold without the interpolation
get_dynamic_threshold_stepped(packet_size) ==
    IF packet_size <= 100 THEN 10500
    ELSE IF packet_size <= 800 THEN 10500
    ELSE 11900

\* MalwareDetectorService.get_dynamic_threshold
get_dynamic_threshold(packet_size) ==
    IF packet_size <= 100 THEN 10500
    ELSE IF packet_size <= 800 THEN 10500 + (packet_size - 100)
    ELSE 11900

\* the sum of a sequence of numbers
RECURSIVE SumOf(_)
SumOf(s) == IF s = <<>> THEN 0 ELSE Head(s) + SumOf(Tail(s))

\* the ways iter_content can deliver n bytes in chunks of at most size bytes
Chunkings(n, size) == {c \in SeqsOf(1..size, 0, n) : SumOf(c) = n}

\* what a call returns, as far as the stream decides it
Outcome(status, p, scanned) ==
    [status |-> status, probability |-> p, bytes_scanned |-> scanned]

\* the loop of scan_url with bytes_scanned = len(chunk) for bytes_scanned += len(chunk)
RECURSIVE scan_url_loop_assigning(_, _, _, _)
scan_url_loop_assigning(chunks, scanned, best, p) ==
    IF chunks = <<>> THEN Outcome("CLEAN", best, scanned)
    ELSE LET n == Head(chunks)
         IN IF n > detector.max_file_size THEN Outcome("CLEAN", best, n)
            ELSE IF /\ detector.early_termination_enabled
                    /\ n >= detector.early_termination_min_bytes
                    /\ p >= detector.early_termination_threshold
                 THEN Outcome("THREAT_DETECTED", p, n)
            ELSE IF p >= detector.confidence_threshold
                 THEN Outcome("THREAT_DETECTED", p, n)
            ELSE scan_url_loop_assigning(Tail(chunks), n, Max(best, p), p)

\* the loop of scan_url over the chunks still to come, the Scorer answering p for
\* every window: scanned is bytes_scanned, best is max_probability
RECURSIVE scan_url_loop(_, _, _, _)
scan_url_loop(chunks, scanned, best, p) ==
    IF chunks = <<>> THEN Outcome("CLEAN", best, scanned)
    ELSE LET n == scanned + Head(chunks)
         IN IF n > detector.max_file_size THEN Outcome("CLEAN", best, n)
            ELSE IF /\ detector.early_termination_enabled
                    /\ n >= detector.early_termination_min_bytes
                    /\ p >= detector.early_termination_threshold
                 THEN Outcome("THREAT_DETECTED", p, n)
            ELSE IF p >= detector.confidence_threshold
                 THEN Outcome("THREAT_DETECTED", p, n)
            ELSE scan_url_loop(Tail(chunks), n, Max(best, p), p)

\* the loop of scan_file over the n bytes from position at on, in chunks of size
RECURSIVE scan_file_loop(_, _, _, _, _, _)
scan_file_loop(n, size, at, scanned, best, p) ==
    IF at >= n THEN Outcome("CLEAN", best, scanned)
    ELSE LET m == scanned + Min(size, n - at)
         IN IF /\ detector.early_termination_enabled
               /\ m >= detector.early_termination_min_bytes
               /\ p >= detector.early_termination_threshold
            THEN Outcome("THREAT_DETECTED", p, m)
            ELSE IF p >= detector.confidence_threshold
                 THEN Outcome("THREAT_DETECTED", p, m)
            ELSE scan_file_loop(n, size, at + size, m, Max(best, p), p)

\* settings.get_risk_level(probability) is called
Classify(p) ==
    /\ applied.f = "none"
    /\ applied' = [f |-> "get_risk_level", x |-> p, y |-> get_risk_level(p)]
    /\ UNCHANGED <<config, request, reader, writer, threads, clients, sinks,
                   notification_queue, one_call>>

\* threat_manager.calculate_risk_level(probability) is called
ClassifyStatic(p) ==
    /\ applied.f = "none"
    /\ applied' = [f |-> "calculate_risk_level", x |-> p, y |-> calculate_risk_level(p)]
    /\ UNCHANGED <<config, request, reader, writer, threads, clients, sinks,
                   notification_queue, one_call>>

\* get_dynamic_threshold(packet_size) is called
DynamicThreshold(packet_size) ==
    /\ applied.f = "none"
    /\ applied' = [f |-> "get_dynamic_threshold", x |-> packet_size,
                   y |-> get_dynamic_threshold(packet_size)]
    /\ UNCHANGED <<config, request, reader, writer, threads, clients, sinks,
                   notification_queue, one_call>>

\* one stream of n bytes is scanned by scan_url twice, delivered as c and as d, the
\* Scorer answering 0.0 for every window
ScanUrlTwice(n, c, d) ==
    /\ applied.f = "none"
    /\ applied' = [f |-> "scan_url", x |-> <<n, c, d>>,
                   y |-> <<scan_url_loop(c, 0, 0, 0), scan_url_loop(d, 0, 0, 0)>>]
    /\ UNCHANGED <<config, request, reader, writer, threads, clients, sinks,
                   notification_queue, one_call>>

\* one file of n bytes is scanned by scan_file twice, with chunk_size c and with d,
\* the Scorer answering 0.0 for every window
ScanFileTwice(n, c, d) ==
    /\ applied.f = "none"
    /\ applied' = [f |-> "scan_file", x |-> <<n, c, d>>,
                   y |-> <<scan_file_loop(n, c, 0, 0, 0, 0),
                           scan_file_loop(n, d, 0, 0, 0, 0)>>]
    /\ UNCHANGED <<config, request, reader, writer, threads, clients, sinks,
                   notification_queue, one_call>>

\* the configured threshold may be 0.0, the least that Settings accepts
InitPure ==
    /\ InitFrom({0, 70})
    /\ detector.early_termination_threshold = 95
    /\ detector.early_termination_min_bytes = 0

NextPure ==
    \/ \E p \in -5..105 : Classify(p)
    \/ \E p \in -5..105 : ClassifyStatic(p)
    \/ \E packet_size \in 0..1000 : DynamicThreshold(packet_size)
    \/ \E n \in 0..(MaxFileSize + 2) :
          /\ applied.f = "none"
          /\ \E c, d \in Chunkings(n, detector.chunk_size) : ScanUrlTwice(n, c, d)
    \/ \E n \in 0..(MaxFileSize + 2) :
          \E c, d \in 1..(MaxChunkSize + 1) : ScanFileTwice(n, c, d)

SpecPure == InitPure /\ [][NextPure]_vars

(***************************************************************************)
(* The detector shared by threads                                          *)
(*                                                                         *)
(* NSessions threads call scan_url of the one StreamingDetector, each      *)
(* once, with early_termination left to the detector's default.  Every     *)
(* call has its locals of its own; stats, _lock and the ThreatManager are  *)
(* shared.  A += on a dict entry is a load and a store, each a step, so    *)
(* that updates can be lost where no lock orders them.  The source of      *)
(* thread s yields the byte s modulo 2, one a chunk, MaxChunks chunks at   *)
(* most.                                                                   *)
(***************************************************************************)

\* the probabilities the Scorer answers the threads with
ThreadProbability == {30, 70}

\* the counters of StreamingDetector.stats a completion updates, in the order of the
\* statements under the lock
CountersOf(blocked) ==
    IF blocked THEN <<"total_scans", "threats_blocked", "total_bytes_scanned">>
    ELSE <<"total_scans", "total_bytes_scanned">>

\* what the statement adds to the counter c
Delta(c, scanned) == IF c = "total_bytes_scanned" THEN scanned ELSE 1

\* the thread s goes on as r
Becomes(s, r) == sessions' = [sessions EXCEPT ![s] = r]

\* the loop is left with a verdict: _create_blocked_result or _create_clean_result
\* is entered and waits for the lock
Verdict(r, blocked, p, details) ==
    [r EXCEPT !.pc = "lock", !.blocked = blocked, !.probability = p, !.details = details]

\* scan_url is called by the thread s
ThreadCall(s) ==
    /\ sessions[s].pc = "idle"
    /\ Becomes(s, [sessions[s] EXCEPT !.pc = "fetch", !.source_type = "URL"])
    /\ UNCHANGED <<config, aside, one_call, sinks, notification_queue, lock, snapshot, clients>>

\* the source of s yields a chunk: the window, the count and scan_url's size limit
ThreadChunk(s, chunk) ==
    LET r == sessions[s]
        scanned == r.bytes_scanned + Len(chunk)
        taken == [r EXCEPT !.buffer = RollingWindow(r.buffer, chunk),
                           !.bytes_scanned = scanned, !.chunks = @ + 1]
    IN /\ r.pc = "fetch"
       /\ r.chunks < MaxChunks
       /\ IF r.source_type = "URL" /\ scanned > detector.max_file_size
          THEN Becomes(s, Verdict(taken, FALSE, r.max_probability,
                                  [early_termination_attempted |-> FALSE]))
          ELSE Becomes(s, [taken EXCEPT !.pc = "infer"])
       /\ UNCHANGED <<config, aside, one_call, sinks, notification_queue, lock, snapshot, clients>>

\* the source of s is exhausted: the clean result is built
ThreadExhausted(s) ==
    LET r == sessions[s]
    IN /\ r.pc = "fetch"
       /\ Becomes(s, Verdict(r, FALSE, r.max_probability,
                             [early_termination_attempted |-> FALSE]))
       /\ UNCHANGED <<config, aside, one_call, sinks, notification_queue, lock, snapshot, clients>>

\* the fault of one call reaching the windows of all: the except branch empties them
ThreadFaultShared(s) ==
    LET r == sessions[s]
    IN /\ r.pc = "fetch"
       /\ r.source_type = "URL"
       /\ sessions' = [t \in Sessions |->
                          IF t = s
                          THEN [r EXCEPT !.pc = "returned",
                                         !.results = Append(@, ErrorResult("URL", r.bytes_scanned))]
                          ELSE [sessions[t] EXCEPT !.buffer = <<>>]]
       /\ UNCHANGED <<config, aside, one_call, sinks, notification_queue, lock, snapshot, clients>>

\* scan_url of s: requests raises a RequestException; the except branch returns
ThreadFault(s) ==
    LET r == sessions[s]
    IN /\ r.pc = "fetch"
       /\ r.source_type = "URL"
       /\ Becomes(s, [r EXCEPT !.pc = "returned",
                               !.results = Append(@, ErrorResult("URL", r.bytes_scanned))])
       /\ UNCHANGED <<config, aside, one_call, sinks, notification_queue, lock, snapshot, clients>>

\* infer answers p for the window of s
ThreadInfer(s, p) ==
    LET r == sessions[s]
        use_early == UseEarlyTermination("None")
        verdict == Decide(use_early, p, r.bytes_scanned)
        seen == [r EXCEPT !.max_probability = RunningMax(@, p)]
    IN /\ r.pc = "infer"
       /\ CASE verdict = "BLOCK_EARLY" ->
                 Becomes(s, Verdict(seen, TRUE, p, [early_termination |-> TRUE]))
            [] verdict = "BLOCK_STANDARD" ->
                 Becomes(s, Verdict(seen, TRUE, p, NoDetails))
            [] OTHER ->
                 Becomes(s, [seen EXCEPT !.pc = "fetch"])
       /\ UNCHANGED <<config, aside, one_call, sinks, notification_queue, lock, snapshot, clients>>

\* the with statement entered without taking the lock
AcquireWithoutLock(s) ==
    /\ sessions[s].pc = "lock"
    /\ Becomes(s, [sessions[s] EXCEPT !.pc = "load", !.k = 1])
    /\ UNCHANGED <<config, aside, one_call, sinks, notification_queue, lock, snapshot, clients>>

\* with self._lock: the thread s takes the lock when it is free
Acquire(s) ==
    /\ sessions[s].pc = "lock"
    /\ lock = 0
    /\ lock' = s
    /\ Becomes(s, [sessions[s] EXCEPT !.pc = "load", !.k = 1])
    /\ UNCHANGED <<config, aside, one_call, sinks, notification_queue, snapshot, clients>>

\* self.stats[c] += d, the load
LoadCounter(s) ==
    LET r == sessions[s]
    IN /\ r.pc = "load"
       /\ Becomes(s, [r EXCEPT !.pc = "store", !.loaded = stats[CountersOf(r.blocked)[r.k]]])
       /\ UNCHANGED <<config, aside, one_call, sinks, notification_queue, lock, snapshot, clients>>

\* self.stats[c] += d, the store; after the last statement the block is left
StoreCounter(s) ==
    LET r == sessions[s]
        c == CountersOf(r.blocked)[r.k]
    IN /\ r.pc = "store"
       /\ stats' = [stats EXCEPT ![c] = r.loaded + Delta(c, r.bytes_scanned)]
       /\ IF r.k < Len(CountersOf(r.blocked))
          THEN Becomes(s, [r EXCEPT !.pc = "load", !.k = @ + 1, !.loaded = 0])
          ELSE Becomes(s, [r EXCEPT !.pc = "unlock", !.k = 0, !.loaded = 0])
       /\ UNCHANGED <<config, aside, one_call, tm_stats, threats, tasks, notification_queue, lock,
                      snapshot, clients>>

\* the with block is left: the lock is free again
Release(s) ==
    /\ sessions[s].pc = "unlock"
    /\ lock' = IF lock = s THEN 0 ELSE lock
    /\ Becomes(s, [sessions[s] EXCEPT !.pc = "log"])
    /\ UNCHANGED <<config, aside, one_call, sinks, notification_queue, snapshot, clients>>

\* ThreatManager.log_threat or log_clean, the loads of its += statements
LogLoad(s) ==
    /\ sessions[s].pc = "log"
    /\ Becomes(s, [sessions[s] EXCEPT !.pc = "logged", !.tm_loaded = tm_stats])
    /\ UNCHANGED <<config, aside, one_call, sinks, notification_queue, lock, snapshot, clients>>

\* ThreatManager.log_threat or log_clean, the stores and the row; then the
\* notification task of a blocked result, and the return of the ScanResult
LogStore(s, in_loop) ==
    LET r == sessions[s]
        st == r.source_type
        p == r.probability
        scanned == r.bytes_scanned
        done == [r EXCEPT !.pc = "returned", !.tm_loaded = NoDetails]
    IN /\ r.pc = "logged"
       /\ IF r.blocked
          THEN /\ tm_stats' = LogThreatStats(r.tm_loaded, scanned, TRUE)
               /\ threats' = Append(threats, LogThreatRow(st, p, scanned, TRUE))
               /\ tasks' = IF in_loop
                           THEN Append(tasks, [event |-> "threat_detected",
                                               data |-> [source_type |-> st, probability |-> p,
                                                         risk_level |-> get_risk_level(p),
                                                         bytes_scanned |-> scanned]])
                           ELSE tasks
               /\ Becomes(s, [done EXCEPT !.results =
                                 Append(@, BlockedResult(st, p, scanned, Len(threats) + 1,
                                                         r.details))])
          ELSE /\ tm_stats' = LogCleanStats(r.tm_loaded, scanned)
               /\ threats' = Append(threats, LogCleanRow(st, p, scanned))
               /\ tasks' = tasks
               /\ Becomes(s, [done EXCEPT !.results =
                                 Append(@, CleanResult(st, p, scanned, Len(threats) + 1,
                                                       r.details))])
       /\ UNCHANGED <<config, aside, one_call, stats, notification_queue, lock, snapshot, clients>>

\* get_stats with the copy taken without the lock
get_stats_unlocked ==
    /\ snapshot' = stats
    /\ UNCHANGED <<config, aside, one_call, sinks, notification_queue, sessions, lock, clients>>

\* StreamingDetector.get_stats: with self._lock: return dict(self.stats)
get_stats ==
    /\ lock = 0
    /\ snapshot' = stats
    /\ UNCHANGED <<config, aside, one_call, sinks, notification_queue, sessions, lock, clients>>

\* the threads start on a detector with the standard check only
InitThreads ==
    /\ Init
    /\ settings.confidence_threshold = 70
    /\ ~detector.early_termination_enabled
    /\ detector.early_termination_threshold = 95
    /\ detector.early_termination_min_bytes = 0
    /\ detector.chunk_size = 1

NextThreads ==
    \/ \E s \in Sessions : ThreadCall(s)
    \/ \E s \in Sessions : ThreadChunk(s, <<s % 2>>)
    \/ \E s \in Sessions : ThreadExhausted(s)
    \/ \E s \in Sessions : ThreadFault(s)
    \/ \E s \in Sessions, p \in ThreadProbability : ThreadInfer(s, p)
    \/ \E s \in Sessions : Acquire(s)
    \/ \E s \in Sessions : LoadCounter(s)
    \/ \E s \in Sessions : StoreCounter(s)
    \/ \E s \in Sessions : Release(s)
    \/ \E s \in Sessions : LogLoad(s)
    \/ \E s \in Sessions, in_loop \in BOOLEAN : LogStore(s, in_loop)
    \/ get_stats

SpecThreads == InitThreads /\ [][NextThreads]_vars

(***************************************************************************)
(* The notifications of the app                                            *)
(*                                                                         *)
(* The scans that the app's endpoints run inside its event loop end        *)
(* blocked, MaxEvents of them at most, and each schedules its              *)
(* notification task; the loop runs the tasks (SendNotification) and the   *)
(* generators of the open /notifications/stream connections, which all     *)
(* take from the one queue get_notification_queue returns.  The heartbeat  *)
(* of an idle connection is a matter of time and is left out.              *)
(***************************************************************************)

\* the events scheduled, waiting in the queue or sent to a connection so far
RECURSIVE CountDelivered(_)
CountDelivered(C) ==
    IF C = {} THEN 0
    ELSE LET c == CHOOSE x \in C : TRUE
         IN Len(delivered[c]) + CountDelivered(C \ {c})

Published == Len(tasks) + Len(notification_queue) + CountDelivered(Connections)

\* _create_blocked_result inside the running loop: loop.create_task of the
\* threat_detected notification of a blocked scan of probability p
BlockedInLoop(p, scanned) ==
    /\ Published < MaxEvents
    /\ tasks' = Append(tasks, [event |-> "threat_detected",
                                data |-> [source_type |-> "URL", probability |-> p,
                                          risk_level |-> get_risk_level(p),
                                          bytes_scanned |-> scanned]])
    /\ UNCHANGED <<config, aside, one_call, threads, stats, tm_stats, threats,
                   notification_queue, clients>>

\* GET /notifications/stream: the connection c is opened and its generator started
Subscribe(c) ==
    /\ c \notin subscribers
    /\ subscribers' = subscribers \cup {c}
    /\ UNCHANGED <<config, aside, one_call, threads, sinks, notification_queue, delivered,
                   disconnected>>

\* the client of c goes: the generator is cancelled
Unsubscribe(c) ==
    /\ c \in subscribers
    /\ subscribers' = subscribers \ {c}
    /\ UNCHANGED <<config, aside, one_call, threads, sinks, notification_queue, delivered,
                   disconnected>>

\* the generator of c: queue.get() returns the oldest event, which is sent to c
StreamGet(c) ==
    /\ c \in subscribers
    /\ notification_queue # <<>>
    /\ delivered' = [delivered EXCEPT ![c] = Append(@, Head(notification_queue))]
    /\ notification_queue' = Tail(notification_queue)
    /\ UNCHANGED <<config, aside, one_call, threads, sinks, subscribers, disconnected>>

\* the app starts on the detector of the threads
InitBus == InitThreads

NextBus ==
    \/ \E p \in {70, 95}, scanned \in {1} : BlockedInLoop(p, scanned)
    \/ SendNotification
    \/ \E c \in Connections : Subscribe(c)
    \/ \E c \in Connections : Unsubscribe(c)
    \/ \E c \in Connections : StreamGet(c)

SpecBus == InitBus /\ [][NextBus]_vars

(***************************************************************************)
(* Risk classification under configured thresholds                         *)
(*                                                                         *)
(* Settings takes each of low_risk_threshold, medium_risk_threshold,       *)
(* high_risk_threshold and critical_threshold from the environment, each   *)
(* with ge=0.0 and le=1.0 and no validator that relates one to another.    *)
(* t is such a setting of the four, in hundredths.                         *)
(***************************************************************************)

\* Settings.risk_levels for the thresholds t
risk_levels_of(t) ==
    << [level |-> "BENIGN", low |-> 0, high |-> t.low],
       [level |-> "LOW", low |-> t.low, high |-> t.medium],
       [level |-> "MEDIUM", low |-> t.medium, high |-> t.high],
       [level |-> "HIGH", low |-> t.high, high |-> t.critical],
       [level |-> "CRITICAL", low |-> t.critical, high |-> 100] >>

\* Settings.get_risk_level for the thresholds t
get_risk_level_of(t, p) ==
    LET k == FirstInterval(risk_levels_of(t), p)
    IN IF k # 0 THEN risk_levels_of(t)[k].level
       ELSE IF p >= 100 THEN "CRITICAL" ELSE "BENIGN"

\* the levels whose interval holds p
LevelsHolding(t, p) ==
    {risk_levels_of(t)[k].level :
        k \in {j \in 1..5 : risk_levels_of(t)[j].low <= p /\ p < risk_levels_of(t)[j].high}}

\* settings.get_risk_level(p) is called under the thresholds t
ClassifyUnder(t, p) ==
    /\ applied.f = "none"
    /\ applied' = [f |-> "risk_levels", x |-> [thresholds |-> t, probability |-> p],
                   y |-> [level |-> get_risk_level_of(t, p), holding |-> LevelsHolding(t, p)]]
    /\ UNCHANGED <<config, request, reader, writer, threads, clients, sinks,
                   notification_queue, one_call>>

NextRisk ==
    /\ applied.f = "none"
    /\ \E t \in [low : {0, 30, 50, 70, 100}, medium : {0, 30, 50, 70, 100},
                  high : {0, 30, 50, 70, 100}, critical : {0, 30, 50, 90, 100}],
          p \in {0, 10, 20, 30, 40, 50, 60, 70, 80, 90, 100} : ClassifyUnder(t, p)

SpecRisk == InitThreads /\ [][NextRisk]_vars

(***************************************************************************)
(* Properties                                                              *)
(***************************************************************************)

\* the one ScanResult of a call that has returned
Result == results[1]

\* the dict d has the entry k with the value v
Has(d, k, v) == k \in DOMAIN d /\ d[k] = v

Scored == pc = "infer" /\ event' = "score"

\* the early branch is open at the chunk: the feature is on and the floor is reached
EarlyOpen ==
    use_early_termination /\ bytes_scanned >= detector.early_termination_min_bytes

\* the step ends the call with a blocked result
Blocks ==
    /\ pc' = "returned"
    /\ Len(results') = 1
    /\ results'[1].blocked
    /\ results'[1].status = "THREAT_DETECTED"

\* C3: at a chunk where early termination is in force for the call, the byte floor
\* is reached and the probability is at or above the early-termination threshold,
\* the call ends blocked with details.early_termination = true, whether or not the
\* standard threshold is reached too.
C3_EarlyTerminationPrecedence ==
    [][(Scored /\ EarlyOpen /\ probability' >= detector.early_termination_threshold)
          => (Blocks /\ Has(results'[1].details, "early_termination", TRUE))]_vars

\* a call blocked early by a probability that reaches the standard threshold too
C3_Witness ==
    /\ pc = "returned"
    /\ event = "score"
    /\ Result.blocked
    /\ Has(Result.details, "early_termination", TRUE)
    /\ Result.probability >= detector.confidence_threshold
    /\ Result.probability >= detector.early_termination_threshold

\* C4: below the byte floor the early branch never fires; a probability at or above
\* the standard threshold blocks by the standard check and the result reports
\* details.early_termination = false.
C4_EarlyTerminationFloor ==
    [][(Scored /\ bytes_scanned < detector.early_termination_min_bytes)
          => /\ ~(Len(results') = 1 /\ Has(results'[1].details, "early_termination", TRUE))
             /\ probability' >= detector.confidence_threshold
                   => (Blocks /\ Has(results'[1].details, "early_termination", FALSE))]_vars

\* C4, the part about the branch taken: below the floor no result is early, and a
\* probability at or above the standard threshold blocks.
C4_FloorFallsThrough ==
    [][(Scored /\ bytes_scanned < detector.early_termination_min_bytes)
          => /\ ~(Len(results') = 1 /\ Has(results'[1].details, "early_termination", TRUE))
             /\ probability' >= detector.confidence_threshold => Blocks]_vars

\* C5: a probability equal to the standard threshold blocks; one equal to the
\* early-termination threshold, with the early branch open, blocks early; one below
\* every threshold that applies does not block.
C5_TiesBlock ==
    [][Scored
          => /\ probability' = detector.confidence_threshold => Blocks
             /\ (EarlyOpen /\ probability' = detector.early_termination_threshold)
                   => (Blocks /\ Has(results'[1].details, "early_termination", TRUE))
             /\ (/\ probability' < detector.confidence_threshold
                 /\ EarlyOpen => probability' < detector.early_termination_threshold)
                   => (pc' = "fetch" /\ results' = results)]_vars

\* a call blocked by the standard check on a probability equal to the threshold
C5_Witness ==
    /\ pc = "returned"
    /\ event = "score"
    /\ Result.blocked
    /\ Result.probability = detector.confidence_threshold
    /\ "early_termination" \notin DOMAIN Result.details

\* C6: a call whose source is exhausted without a block returns status CLEAN,
\* blocked = false and the greatest probability scored (0 when none was).
C6_CleanReportsMaximum ==
    event = "exhausted"
       => /\ pc = "returned"
          /\ Len(results) = 1
          /\ Result.status = "CLEAN"
          /\ ~Result.blocked
          /\ Result.probability = SetMax(scored \cup {0})

\* a clean result whose probability is not the last one scored
C6_Witness ==
    /\ event = "exhausted"
    /\ scored # {}
    /\ Result.status = "CLEAN"
    /\ Result.probability # probability

\* C7: a fault of the chunk source, before the first chunk or later, ends the call
\* with the one result status ERROR, probability 0, blocked = false and the fault in
\* details.
C7_SourceFaultIsError ==
    event = "fault"
       => /\ pc = "returned"
          /\ Len(results) = 1
          /\ Result.status = "ERROR"
          /\ Result.probability = 0
          /\ ~Result.blocked
          /\ "error" \in DOMAIN Result.details

\* a fault after a window was scored above 0
C7_Witness ==
    /\ event = "fault"
    /\ max_probability > 0
    /\ bytes_scanned > 0
    /\ Result.status = "ERROR"

\* C8: a failure of the Scorer ends the call with a ScanResult of status ERROR,
\* never with an exception.
C8_ScorerFaultIsError ==
    event = "scorer_fault"
       => /\ pc = "returned"
          /\ Len(results) = 1
          /\ Result.status = "ERROR"

\* C9: a scan stopped by the size limit returns status CLEAN, not ERROR, with the
\* greatest probability scored so far.
C9_SizeLimitEndsClean ==
    event = "size_limit"
       => /\ pc = "returned"
          /\ Len(results) = 1
          /\ Result.status = "CLEAN"
          /\ ~Result.blocked
          /\ Result.probability = SetMax(scored \cup {0})

\* a scan stopped by the size limit after a window was scored above 0
C9_Witness ==
    /\ event = "size_limit"
    /\ bytes_scanned > detector.max_file_size
    /\ Result.status = "CLEAN"
    /\ Result.probability > 0

\* the call is over
Terminal == pc \in {"returned", "raised"}

\* C10: a call that is over has returned exactly one ScanResult, and once over it
\* takes no chunk, asks the Scorer nothing and changes nothing of its own.
C10_OneResultThenNothing ==
    [][/\ Terminal' => Len(results') = 1
       /\ Terminal => UNCHANGED <<pc, results, call, i, buffer, bytes_scanned,
                                  max_probability, early_termination_active,
                                  probability, received, scored, event>>]_vars

\* the step ends the call with a ScanResult
Returns == pc # "returned" /\ pc' = "returned" /\ Len(results') = 1

\* the step adds the call's result to StreamingDetector.stats as one scan
CountsTheScan ==
    /\ stats'.total_scans = stats.total_scans + 1
    /\ stats'.threats_blocked = stats.threats_blocked + (IF results'[1].blocked THEN 1 ELSE 0)
    /\ stats'.total_bytes_scanned = stats.total_bytes_scanned + results'[1].bytes_scanned

\* C13: every step that ends a call, with a BLOCKED, a CLEAN or an ERROR result, adds
\* one to total_scans, one to threats_blocked when the result is blocked, and the
\* result's bytes_scanned to total_bytes_scanned.
C13_EveryTerminalCounts == [][Returns => CountsTheScan]_vars

\* C13, the part about BLOCKED and CLEAN: a step that ends a call with a result
\* other than ERROR counts the scan.
C13_BlockedAndCleanCount ==
    [][(Returns /\ results'[1].status # "ERROR") => CountsTheScan]_vars

\* C15: a call that has returned, with a BLOCKED, a CLEAN or an ERROR result, has
\* handed its result to the threat sink exactly once: the threat log holds one row,
\* the row of the call.
C15_EveryTerminalLogged ==
    pc = "returned"
       => /\ Len(threats) = 1
          /\ threats[1].bytes_scanned = Result.bytes_scanned
          /\ tm_stats.total_scans = 1

\* C15, the part about BLOCKED and CLEAN: a call that has returned a result other
\* than ERROR has logged exactly one row, and the ThreatManager counted one scan.
C15_BlockedAndCleanLogged ==
    (pc = "returned" /\ Result.status # "ERROR")
       => /\ Len(threats) = 1
          /\ threats[1].bytes_scanned = Result.bytes_scanned
          /\ tm_stats.total_scans = 1

\* the step schedules the threat_detected event of the result it returns
PushesThreatDetected ==
    /\ Len(tasks') = Len(tasks) + 1
    /\ tasks'[Len(tasks')].event = "threat_detected"
    /\ tasks'[Len(tasks')].data.probability = results'[1].probability

\* C16: every step that ends a call with a blocked result schedules a
\* threat_detected event for the notification queue, whether or not an event loop
\* is running where the call was made.
C16_BlockedAlwaysNotifies == [][(Returns /\ Blocks) => PushesThreatDetected]_vars

\* C16, what the code does: a step that ends a call with a blocked result
\* schedules the event or leaves the notifications as they are.
C16_BlockedNotifiesOrSkips ==
    [][(Returns /\ Blocks) => (PushesThreatDetected \/ tasks' = tasks)]_vars

\* C20: once the client of a scanning call has gone, the call takes no more chunk
\* and asks the Scorer nothing more, and the step that ends it returns status ERROR,
\* never a BLOCKED or a CLEAN result.
C20_CancellationStopsScan ==
    [][disconnected
          => /\ ~(pc = "fetch" /\ event' \in {"chunk", "size_limit"})
             /\ ~Scored
             /\ Returns => results'[1].status = "ERROR"]_vars

\* C20, what the code does: the call of a client that has gone ends as it would
\* have ended: it can return a CLEAN or a BLOCKED result, and counts it.
C20_CancelledCallGoesOn ==
    [][(disconnected /\ Returns /\ results'[1].status # "ERROR") => CountsTheScan]_vars

\* the early branch as the detector's fields have it at the chunk
EarlyOpenNow ==
    detector.early_termination_enabled
       /\ bytes_scanned >= detector.early_termination_min_bytes

\* C21: at every chunk of a call, whatever updates were made since the call began,
\* the decision follows the detector's settings of that moment: early termination
\* is in force exactly when it is enabled now, with the floor and the threshold of
\* now, and the standard check uses the standard threshold of now.
C21_UpdatesReachEveryChunk ==
    [][Scored
          => /\ (EarlyOpenNow /\ probability' >= detector.early_termination_threshold)
                   => (Blocks /\ Has(results'[1].details, "early_termination", TRUE))
             /\ (Blocks /\ Has(results'[1].details, "early_termination", TRUE))
                   => detector.early_termination_enabled
             /\ probability' >= detector.confidence_threshold => Blocks]_vars

\* C21, what the code does: the three thresholds are read at the chunk, and
\* whether early termination is in force is read once, when the call begins.
C21_ThresholdsReachEveryChunk ==
    [][/\ (pc = "idle" /\ pc' = "fetch")
             => use_early_termination' = detector.early_termination_enabled
       /\ Scored
             => /\ (EarlyOpen /\ probability' >= detector.early_termination_threshold)
                      => (Blocks /\ Has(results'[1].details, "early_termination", TRUE))
                /\ (Blocks /\ Has(results'[1].details, "early_termination", TRUE))
                      => (EarlyOpen /\ probability' >= detector.early_termination_threshold)
                /\ probability' >= detector.confidence_threshold => Blocks
                /\ (/\ probability' < detector.confidence_threshold
                    /\ EarlyOpen => probability' < detector.early_termination_threshold)
                      => pc' = "fetch"]_vars

\* the row that the call's result names by its log_id
Logged == threats[Result.details.log_id]

\* C27: the row handed to the threat log for a CLEAN or blocked call carries the
\* status, blocked, probability, bytes_scanned and risk level of the ScanResult
\* returned, whatever the probability and the thresholds.
C27_RecordMatchesResult ==
    (pc = "returned" /\ Result.status \in {"CLEAN", "THREAT_DETECTED"})
       => /\ Logged.status = Result.status
          /\ Logged.blocked = Result.blocked
          /\ Logged.probability = Result.probability
          /\ Logged.bytes_scanned = Result.bytes_scanned
          /\ Logged.risk_level = Result.risk_level

\* C27, what the code does: the row carries the result's blocked, probability,
\* bytes_scanned and risk level; its status is the result's unless the call was
\* blocked with a probability under low_risk_threshold.
C27_RecordMatchesButStatus ==
    (pc = "returned" /\ Result.status \in {"CLEAN", "THREAT_DETECTED"})
       => /\ Logged.blocked = Result.blocked
          /\ Logged.probability = Result.probability
          /\ Logged.bytes_scanned = Result.bytes_scanned
          /\ Logged.risk_level = Result.risk_level
          /\ (Result.blocked /\ Result.probability < low_risk_threshold)
                \/ Logged.status = Result.status

\* the threat log raises while the call ends
SinkFaults == pc # "raised" /\ pc' = "raised" /\ event' = "sink_fault"

\* C28: a fault of the sink while the terminal result is produced leaves no counter
\* of the detector's statistics incremented.
C28_FaultCountsNothing ==
    [][SinkFaults => stats' = stats]_vars

\* C28, what the code does: the scan is counted, in the detector's statistics and
\* in the ThreatManager's, and no row and no result exist.
C28_FaultLeavesTheScanCounted ==
    [][SinkFaults => /\ stats'.total_scans = stats.total_scans + 1
                     /\ tm_stats'.total_scans = tm_stats.total_scans + 1
                     /\ threats' = threats
                     /\ results' = results]_vars

\* C29: a scan requested with block_on_detection=false does not end blocked by a
\* threshold reached.
C29_NoBlockWhenNotAsked ==
    (pc = "returned" /\ ~request.block_on_detection)
       => /\ ~Result.blocked
          /\ Result.status # "THREAT_DETECTED"

\* C29, what the code does: block_on_detection decides nothing; whatever it is, the
\* call that ends on a chunk whose probability reaches the threshold in force is
\* blocked.
C29_OptionIgnored ==
    [][(Returns /\ event' = "score") => Blocks]_vars

\* C30: a scan requested through the API with early_termination=false does not end
\* with details.early_termination true, whatever the detector's default.
C30_NoEarlyTerminationWhenNotAsked ==
    (pc = "returned" /\ ~request.early_termination)
       => ~Has(Result.details, "early_termination", TRUE)

\* C30, what the code does: with early_termination=false the detector's default
\* decides.
C30_DefaultDecides ==
    (pc = "returned" /\ ~request.early_termination
        /\ Has(Result.details, "early_termination", TRUE))
       => detector.early_termination_enabled

\* C31: the probability of a blocked result is the greatest of the probabilities of
\* all the windows scored in the call, whatever the thresholds.
C31_BlockedReportsMaximum ==
    (pc = "returned" /\ Result.blocked) => Result.probability = SetMax(scored)

\* the call was blocked by the early check with a floor that earlier chunks were under
BlockedEarlyAboveFloor ==
    /\ Has(Result.details, "early_termination", TRUE)
    /\ detector.early_termination_min_bytes > 0
    /\ detector.early_termination_threshold < detector.confidence_threshold

\* C31 amended: the probability of a blocked result is that of the window that
\* reached the threshold, the last one scored; it is the greatest of all the windows
\* scored unless the call was blocked by the early check, with a threshold under the
\* standard one and a floor above 0 bytes.
C31_BlockedReportsTrigger ==
    (pc = "returned" /\ Result.blocked)
       => /\ Result.probability = probability
          /\ BlockedEarlyAboveFloor \/ Result.probability = SetMax(scored)

\* a call blocked early on a window of lower probability than one scored under the
\* floor
C31_Witness ==
    /\ pc = "returned"
    /\ Result.blocked
    /\ BlockedEarlyAboveFloor
    /\ Result.probability = probability
    /\ Result.probability < SetMax(scored)

\* C32: the probability of a CLEAN result is strictly under the standard threshold.
C32_CleanUnderThreshold ==
    (pc = "returned" /\ Result.status = "CLEAN")
       => Result.probability < detector.confidence_threshold

\* C32 amended: every window scored in a call that ends CLEAN, by exhaustion or by
\* the size limit, was strictly under the standard threshold; the probability of the
\* result is the greatest of them, so strictly under the threshold too, or 0.0 when
\* no window was scored.
C32_CleanScoredUnderThreshold ==
    (pc = "returned" /\ Result.status = "CLEAN")
       => /\ \A p \in scored : p < detector.confidence_threshold
          /\ Result.probability = SetMax(scored \cup {0})
          /\ scored # {} => Result.probability < detector.confidence_threshold

\* a scan stopped by the size limit after a window was scored above 0.0
C32_Witness ==
    /\ pc = "returned"
    /\ event = "size_limit"
    /\ Result.status = "CLEAN"
    /\ Result.probability > 0
    /\ Result.probability < detector.confidence_threshold

\* the bytes of the chunks scored once the step is made.  A call waits for the
\* source only at its start or after a score that let it go on, so at pc = "fetch"
\* every chunk counted in bytes_scanned has been scored; at pc = "infer" the chunk
\* last counted is the one the step scores.
BytesScored == bytes_scanned

\* C33: the bytes_scanned of every ScanResult is the total length of the chunks that
\* were scored, on every exit: block, exhaustion, size limit, fault of the source.
C33_CountsScoredBytesOnly ==
    [][Returns => results'[1].bytes_scanned = BytesScored]_vars

\* C33, what the code does: bytes_scanned is the total length of the chunks received,
\* the one that passed the size limit included, which is not scored.
C33_CountsReceivedBytes ==
    [][Returns => /\ results'[1].bytes_scanned = Len(received')
                  /\ event' # "size_limit" => results'[1].bytes_scanned = BytesScored]_vars

\* C36: after each of the three operations that update the threshold, the threshold
\* the detector blocks on is the settings threshold that ThreatManager.should_block
\* and the threat log use, and the old_threshold that the endpoint reports is the
\* threshold the detector blocked on just before.
C36_ThresholdsAgree ==
    [][/\ detector'.confidence_threshold = settings'.confidence_threshold
       /\ applied'.f = "POST /settings/threshold"
             => applied'.y = detector.confidence_threshold]_vars

\* C36, what the code does: the endpoint leaves the two equal and reports the
\* settings threshold of just before; ThreatManager.update_threshold stores the
\* settings threshold alone, StreamingDetector.set_threshold the detector's alone.
C36_EachStoresItsOwn ==
    [][/\ applied'.f = "POST /settings/threshold"
             => /\ detector'.confidence_threshold = settings'.confidence_threshold
                /\ applied'.y = settings.confidence_threshold
       /\ applied'.f = "ThreatManager.update_threshold"
             => /\ detector' = detector
                /\ settings'.confidence_threshold = applied'.x
       /\ applied'.f = "StreamingDetector.set_threshold"
             => /\ settings' = settings
                /\ detector'.confidence_threshold = applied'.x]_vars

\* the number of chunks a file of n bytes is cut in: ceil(n / size)
ChunksOf(n, size) == (n + size - 1) \div size

\* C37: every call reaches a terminal state of the session, in which it has returned
\* its ScanResult: the source and the Scorer answering every wait, the call is not
\* kept scanning for ever, even by a source that never stops.
C37_EveryCallEnds == <>(pc = "returned")

\* C37, what the code does: every call is over in the end, with its ScanResult or
\* with the exception that infer raised.
C37_EveryCallIsOver == <>Terminal

\* C37, the bounds: scan_file takes a chunk, and asks the Scorer, at most
\* ceil(n / chunk_size) times; scan_url asks the Scorer only with bytes_scanned
\* within max_file_size and takes no chunk once bytes_scanned is over it; every
\* chunk taken adds at least one byte.
C37_ScorerCallsBounded ==
    [][/\ source_type' = "FILE"
             => /\ i' = i \/ (i' = i + detector.chunk_size /\ pc' = "infer")
                /\ i' <= ChunksOf(Len(file_data'), detector.chunk_size) * detector.chunk_size
       /\ (source_type' = "URL" /\ pc' = "infer")
             => /\ bytes_scanned' > bytes_scanned
                /\ bytes_scanned' <= detector.max_file_size
       /\ (source_type = "URL" /\ bytes_scanned > detector.max_file_size)
             => (Terminal /\ bytes_scanned' = bytes_scanned)
       /\ (pc = "infer") => pc' # "infer"]_vars

\* C38: whenever the Scorer is asked, the model input is exactly window_size
\* tokens: the bytes of the current window in order, then pad token 256 up to
\* window_size; the window is never longer than window_size, so no byte of it is
\* cut off.
C38_ModelInput ==
    pc = "infer"
        => LET input == preprocess(buffer)
               n == Len(buffer)
           IN /\ Len(input) = detector.window_size
              /\ n <= detector.window_size
              /\ SubSeq(input, 1, n) = buffer
              /\ \A k \in (n + 1)..detector.window_size : input[k] = pad_token_id
              /\ \A k \in 1..n : input[k] \in Byte

\* the Scorer is asked about a window shorter than window_size, which is padded
C38_Witness ==
    /\ pc = "infer"
    /\ Len(buffer) = 1
    /\ Len(buffer) < detector.window_size
    /\ preprocess(buffer) = buffer \o [k \in 1..(detector.window_size - 1) |-> pad_token_id]

\* the Scorer is asked about a full window after older bytes were dropped from it
C38_FullWindow ==
    /\ pc = "infer"
    /\ Len(received) > detector.window_size
    /\ preprocess(buffer) = buffer

(***************************************************************************)
(* Properties of the detector shared by threads                            *)
(***************************************************************************)

\* the threads whose call has returned a result of status st
Ended(st) ==
    {s \in Sessions : sessions[s].pc = "returned" /\ sessions[s].results[1].status = st}

\* the sum of the bytes_scanned of the threads of S
RECURSIVE BytesOf(_)
BytesOf(S) ==
    IF S = {} THEN 0
    ELSE LET s == CHOOSE x \in S : TRUE
         IN sessions[s].bytes_scanned + BytesOf(S \ {s})

\* every thread's call has returned
AllReturned == \A s \in Sessions : sessions[s].pc = "returned"

\* C11: once the calls of all the threads have returned, under whatever interleaving,
\* total_scans is the number of calls that ended CLEAN or BLOCKED, threats_blocked
\* the number that ended BLOCKED and total_bytes_scanned the sum of their
\* bytes_scanned: no update is lost.
C11_StatsIntegrity ==
    AllReturned
       => /\ stats.total_scans = Cardinality(Ended("CLEAN") \cup Ended("THREAT_DETECTED"))
          /\ stats.threats_blocked = Cardinality(Ended("THREAT_DETECTED"))
          /\ stats.total_bytes_scanned = BytesOf(Ended("CLEAN") \cup Ended("THREAT_DETECTED"))

\* all the calls have returned, none with an error, one at least blocked and one at
\* least clean, and bytes were counted
C11_Witness ==
    /\ AllReturned
    /\ Ended("ERROR") = {}
    /\ Ended("THREAT_DETECTED") # {}
    /\ Ended("CLEAN") # {}
    /\ stats.total_scans = NSessions
    /\ stats.total_bytes_scanned > 0

\* the threads whose completion has left the block under the lock
Counted ==
    {s \in Sessions : \/ sessions[s].pc \in {"unlock", "log", "logged"}
                      \/ sessions[s].pc = "returned" /\ sessions[s].results[1].status # "ERROR"}

\* the counters that the completions of the threads of D add up to
TotalsOf(D) ==
    [total_scans |-> Cardinality(D),
     threats_blocked |-> Cardinality({s \in D : sessions[s].blocked}),
     total_bytes_scanned |-> BytesOf(D)]

\* C12: the dict get_stats returns, whenever it is taken among completing calls, is
\* the sum of whole completions: there is a set of completed calls of which it holds
\* all three counters and nothing of any other call, so that threats_blocked is
\* never above total_scans.
C12_SnapshotIsWholeCompletions ==
    /\ \E D \in SUBSET Counted : snapshot = TotalsOf(D)
    /\ snapshot.threats_blocked <= snapshot.total_scans

\* a snapshot taken after the completion of a blocked call that scanned bytes, while
\* another call is inside its own block under the lock afterwards
C12_Witness ==
    /\ snapshot.total_scans = 1
    /\ snapshot.threats_blocked = 1
    /\ snapshot.total_bytes_scanned > 0
    /\ \E s \in Sessions : sessions[s].pc = "store" /\ lock = s

\* the step is the return of thread s from scan_url's except branch
Faults(s) == sessions[s].pc = "fetch" /\ sessions'[s].pc = "returned"

\* the window of thread s holds the last bytes of its own source
OwnWindow(s) ==
    sessions[s].buffer
       = [k \in 1..Min(detector.window_size, sessions[s].bytes_scanned) |-> s % 2]

\* the result of thread s is the one its own verdict, probability and bytes make
OwnResult(s) ==
    LET r == sessions[s]
        res == r.results[1]
    IN (r.pc = "returned" /\ res.status # "ERROR")
          => /\ res.blocked = r.blocked
             /\ res.status = (IF r.blocked THEN "THREAT_DETECTED" ELSE "CLEAN")
             /\ res.probability = r.probability
             /\ res.bytes_scanned = r.bytes_scanned
             /\ r.probability = (IF r.blocked THEN r.probability ELSE r.max_probability)

\* C14: the step in which a chunk-source fault ends a call returns status ERROR and
\* changes neither threats_blocked nor the ThreatManager's blocked, threats_detected
\* and clean_scans counters, nor the threat log, nor anything of another call; a
\* step of one call never changes another call; and at every moment each call's
\* window holds its own bytes only, each healthy call's result is the one of its own
\* verdict, and threats_blocked counts the healthy blocked calls alone.
C14_FaultIsolation ==
    [][\A s \in Sessions :
          /\ Faults(s)
                => /\ sessions'[s].results[1].status = "ERROR"
                   /\ stats'.threats_blocked = stats.threats_blocked
                   /\ tm_stats'.blocked = tm_stats.blocked
                   /\ tm_stats'.threats_detected = tm_stats.threats_detected
                   /\ tm_stats'.clean_scans = tm_stats.clean_scans
                   /\ UNCHANGED <<threats, tasks, lock>>
          /\ sessions'[s] # sessions[s]
                => \A t \in Sessions \ {s} : sessions'[t] = sessions[t]
          /\ OwnWindow(s)'
          /\ OwnResult(s)'
          /\ (lock' = 0) => stats'.threats_blocked = TotalsOf(Counted)'.threats_blocked]_vars

\* one call ended by a fault after it had taken a chunk, another returned blocked
\* with its own bytes counted
C14_Witness ==
    \E s, t \in Sessions :
       /\ s \in Ended("ERROR")
       /\ sessions[s].bytes_scanned > 0
       /\ t \in Ended("THREAT_DETECTED")
       /\ sessions[t].bytes_scanned > 0
       /\ stats.threats_blocked = 1
       /\ tm_stats.clean_scans = 0

\* the calls that are taking chunks or asking the Scorer
Scanning == {s \in Sessions : sessions[s].pc \in {"fetch", "infer"}}

\* C19: at every moment the calls that are scanning are at most
\* settings.max_concurrent_scans; a call beyond that has not started.
C19_ConcurrencyBounded == Cardinality(Scanning) <= settings.max_concurrent_scans

\* C34: once the calls of all the threads have returned CLEAN or BLOCKED, under
\* whatever interleaving, the ThreatManager's counters agree with the detector's:
\* total_scans is the number of calls, blocked the number that ended BLOCKED, and
\* total_scans is threats_detected + clean_scans.
C34_ThreatManagerCountersAgree ==
    (AllReturned /\ Ended("ERROR") = {})
       => /\ tm_stats.total_scans = NSessions
          /\ tm_stats.total_scans = stats.total_scans
          /\ tm_stats.blocked = Cardinality(Ended("THREAT_DETECTED"))
          /\ tm_stats.total_scans = tm_stats.threats_detected + tm_stats.clean_scans

\* C34, what the code does: the ThreatManager's counters are never above the
\* detector's; an update of theirs can be lost.
C34_ThreatManagerCountsAtMost ==
    (AllReturned /\ Ended("ERROR") = {})
       => /\ tm_stats.total_scans <= stats.total_scans
          /\ tm_stats.blocked <= Cardinality(Ended("THREAT_DETECTED"))

(***************************************************************************)
(* Properties of the notifications                                         *)
(***************************************************************************)

\* C17: the notification queue has a fixed capacity and drops what is published
\* beyond it: the events waiting in it stay fewer than the MaxEvents published in
\* all, whatever the connections take.
C17_QueueBoundedByDropping == Len(notification_queue) < MaxEvents

\* C17, what the code does: nothing published is ever dropped; every event
\* scheduled is still a task, waits in the queue or was sent to a connection.
C17_NothingDropped ==
    [][Len(tasks') + Len(notification_queue') + CountDelivered(Connections)' >= Published]_vars

\* C18: an event taken from the queue is sent to every connection open at that
\* moment, so that with two connections open none is sent to one of them only.
C18_FanOut ==
    [][\A c \in Connections :
          delivered'[c] # delivered[c]
             => \A d \in subscribers :
                   delivered'[d] = Append(delivered[d], Head(notification_queue))]_vars

\* C18, what the code does: an event taken from the queue is sent to one
\* connection and to no other.
C18_OneReceiver ==
    [][\A c, d \in Connections :
          (delivered'[c] # delivered[c] /\ d # c) => delivered'[d] = delivered[d]]_vars

(***************************************************************************)
(* Properties of a decision against an update                              *)
(***************************************************************************)

\* the configurations there have been: the detector's fields before the update and
\* after it
Versions == IF writer.pc = "idle" THEN {detector} ELSE {writer.old, writer.new}

C22_EachValueOfSomeVersion ==
    (reader.pc = "decided" /\ reader.bytes_scanned >= reader.min_bytes)
       => /\ \E v \in Versions : reader.min_bytes = v.early_termination_min_bytes
          /\ \E v \in Versions : reader.early_threshold = v.early_termination_threshold

(***************************************************************************)
(* Properties of the functions of one value                                *)
(***************************************************************************)

\* the level of the default RiskTable for a probability in hundredths
LevelOf(p) ==
    IF p < 30 THEN "BENIGN"
    ELSE IF p < 50 THEN "LOW"
    ELSE IF p < 70 THEN "MEDIUM"
    ELSE IF p < 90 THEN "HIGH"
    ELSE "CRITICAL"

\* C23: with the default thresholds get_risk_level maps a probability of [0, 1] to the
\* one level of BENIGN [0, 0.3), LOW [0.3, 0.5), MEDIUM [0.5, 0.7), HIGH [0.7, 0.9),
\* CRITICAL [0.9, 1.0]: 0.29 is BENIGN, 0.30 LOW, 0.89 HIGH, 0.90 and 1.0 CRITICAL.
C23_ClassifyTable ==
    (applied.f = "get_risk_level" /\ applied.x \in 0..100)
       => /\ applied.y = LevelOf(applied.x)
          /\ applied.x = 29 => applied.y = "BENIGN"
          /\ applied.x = 30 => applied.y = "LOW"
          /\ applied.x = 89 => applied.y = "HIGH"
          /\ applied.x = 90 => applied.y = "CRITICAL"
          /\ applied.x = 100 => applied.y = "CRITICAL"

\* get_risk_level has been applied to 1.0, which no half-open interval holds
C23_Witness ==
    applied.f = "get_risk_level" /\ applied.x = 100 /\ applied.y = "CRITICAL"

\* C24: a probability outside [0, 1] is rejected with InvalidProbability and gets no
\* level.
C24_OutOfRangeRejected ==
    (applied.f \in {"get_risk_level", "calculate_risk_level"} /\ applied.x \notin 0..100)
       => applied.y = "InvalidProbability"

\* C24, what the code does: below 0.0 the level is BENIGN, above 1.0 it is CRITICAL.
C24_OutOfRangeClamped ==
    (applied.f \in {"get_risk_level", "calculate_risk_level"} /\ applied.x \notin 0..100)
       => applied.y = (IF applied.x < 0 THEN "BENIGN" ELSE "CRITICAL")

\* C25: the dynamic threshold is 0.75 up to 100 bytes, 0.75 + 0.05 * (s - 100) / 700
\* from there up to 800 bytes and 0.85 above; 100, 450, 800 and 1000 bytes give
\* 0.75, 0.775, 0.80 and 0.85; a greater size never has a smaller threshold.
C25_DynamicThreshold ==
    applied.f = "get_dynamic_threshold"
       => /\ applied.x <= 100 => applied.y = 10500
          /\ (100 < applied.x /\ applied.x <= 800) => applied.y = 10500 + (applied.x - 100)
          /\ applied.x > 800 => applied.y = 11900
          /\ applied.x = 100 => applied.y = 10500
          /\ applied.x = 450 => applied.y = 10850
          /\ applied.x = 800 => applied.y = 11200
          /\ applied.x = 1000 => applied.y = 11900
          /\ \A s \in 0..applied.x : get_dynamic_threshold(s) <= applied.y

\* the threshold of a size inside the interpolation has been computed
C25_Witness ==
    applied.f = "get_dynamic_threshold" /\ applied.x = 450 /\ applied.y = 10850

\* what a clean stream of n bytes is claimed to end with
CleanOutcome(n) == Outcome("CLEAN", 0, n)

\* C26: the Scorer answering 0.0 for every window, two scans of one stream under two
\* chunkings both end CLEAN with probability 0.0 and bytes_scanned the length of
\* the stream.
C26_ChunkingIndependence ==
    applied.f \in {"scan_url", "scan_file"}
       => applied.y = <<CleanOutcome(applied.x[1]), CleanOutcome(applied.x[1])>>

\* C26 amended: the same, for thresholds above 0.0 and, in scan_url, a stream of at
\* most max_file_size bytes.
C26_ChunkingIndependenceWithinLimit ==
    ( /\ applied.f \in {"scan_url", "scan_file"}
      /\ detector.confidence_threshold > 0
      /\ detector.early_termination_threshold > 0
      /\ applied.f = "scan_url" => applied.x[1] <= detector.max_file_size )
       => applied.y = <<CleanOutcome(applied.x[1]), CleanOutcome(applied.x[1])>>

\* a stream of max_file_size bytes has been scanned by scan_url under two different
\* chunkings, with a threshold above 0.0
C26_Witness ==
    /\ applied.f = "scan_url"
    /\ applied.x[1] = detector.max_file_size
    /\ applied.x[2] # applied.x[3]
    /\ detector.confidence_threshold > 0

\* C26, the two states in which the claim fails: a stream over max_file_size is cut
\* at the chunk that passes the limit, so that two chunkings count different
\* numbers of bytes
C26_CutDependsOnChunking ==
    /\ applied.f = "scan_url"
    /\ detector.confidence_threshold > 0
    /\ applied.y[1].status = "CLEAN" /\ applied.y[2].status = "CLEAN"
    /\ applied.y[1].bytes_scanned # applied.y[2].bytes_scanned

\* and with the threshold 0.0 the probability 0.0 reaches it
C26_ZeroThresholdBlocks ==
    /\ applied.f = "scan_file"
    /\ detector.confidence_threshold = 0
    /\ applied.x[1] > 0
    /\ applied.y[1].status = "THREAT_DETECTED"

(***************************************************************************)
(* Properties of the risk classification under configured thresholds      *)
(***************************************************************************)

\* the place of a level in BENIGN < LOW < MEDIUM < HIGH < CRITICAL
Rank(level) ==
    CASE level = "BENIGN" -> 1
      [] level = "LOW" -> 2
      [] level = "MEDIUM" -> 3
      [] level = "HIGH" -> 4
      [] level = "CRITICAL" -> 5

\* no smaller probability has a higher level under the same thresholds
Monotonic ==
    \A q \in {0, 10, 20, 30, 40, 50, 60, 70, 80, 90, 100} :
       q <= applied.x.probability
          => Rank(get_risk_level_of(applied.x.thresholds, q)) <= Rank(applied.y.level)

\* C35: under every setting of the four thresholds that Settings accepts the five
\* intervals partition [0, 1], each probability in exactly one of them (1.0 in
\* CRITICAL), and the classification is monotonic.
C35_IntervalsPartition ==
    applied.f = "risk_levels"
       => /\ applied.x.probability < 100 => applied.y.holding = {applied.y.level}
          /\ applied.x.probability = 100 => applied.y.level = "CRITICAL"
          /\ Monotonic

\* C35, what the code does: every probability is in at least one interval, in more
\* than one when the thresholds are not in order; the first one in the order of the
\* levels gives the level, which keeps the classification monotonic.
C35_IntervalsCover ==
    applied.f = "risk_levels"
       => /\ applied.x.probability < 100 => applied.y.level \in applied.y.holding
          /\ applied.x.probability = 100 => applied.y.level = "CRITICAL"
          /\ Monotonic

====
